---- MODULE Spec2Model ----
(***************************************************************************)
(* Model of package domaininfo (src/main.go): ValidateDomain and the       *)
(* functions it calls.  Go strings are sequences of one-character strings, *)
(* a nil pointer is the empty sequence and a non-nil pointer a sequence of *)
(* length one, float64 values are exact decimals [m, e] = m / 10^e.        *)
(***************************************************************************)
EXTENDS Integers, Sequences, FiniteSets, TLC

VARIABLES
    mode,        \* which entry point this behaviour exercises
    pc,          \* position inside the call
    input,       \* argument of ValidateDomain / cleanDomainInput / isValidDomainFormat
    cleanDomain, \* ValidateDomain: local cleanDomain
    ipAddress,   \* ValidateDomain: local ipAddress
    lookups,     \* results of the net.LookupIP calls made so far, in order
    idx,         \* getIPLocation: index of the next entry of locationProviders
    attempts,    \* adapters invoked so far: what each received and returned
    requests,    \* HTTP GET requests issued so far, in order
    locRet,      \* what getIPLocation returned: [location, err]
    ret,         \* what ValidateDomain returned: nil or a DomainInfo
    err,         \* error returned by ValidateDomain ("" is nil)
    out          \* result of a directly called function

vars == <<mode, pc, input, cleanDomain, ipAddress, lookups, idx, attempts,
          requests, locRet, ret, err, out>>

-----------------------------------------------------------------------------
(* Bounds of the model *)

\* most tokens an enumerated input string is built from
MaxTokens == 4
\* most labels an enumerated domain is built from
MaxLabels == 3
\* enumerated coordinates are m / 10^e with m up to MaxMantissa, e up to MaxScale
MaxMantissa == 12
MaxScale == 2
\* most addresses a DNS answer carries
MaxAddrs == 2

-----------------------------------------------------------------------------
(* Strings *)

Lower == {"a","b","c","d","e","f","g","h","i","j","k","l","m",
          "n","o","p","q","r","s","t","u","v","w","x","y","z"}
Upper == {"A","B","C","D","E","F","G","H","I","J","K","L","M",
          "N","O","P","Q","R","S","T","U","V","W","X","Y","Z"}
Digit == {"0","1","2","3","4","5","6","7","8","9"}
Alpha == Lower \cup Upper
AlNum == Alpha \cup Digit
Space == {" ", "\t", "\n", "\r"}

RECURSIVE Flatten(_)
Flatten(ss) == IF ss = <<>> THEN <<>> ELSE Head(ss) \o Flatten(Tail(ss))

RECURSIVE Repeat(_, _)
Repeat(c, n) == IF n = 0 THEN <<>> ELSE <<c>> \o Repeat(c, n - 1)

\* strings.HasPrefix
HasPrefix(s, p) == Len(s) >= Len(p) /\ SubSeq(s, 1, Len(p)) = p

\* strings.HasSuffix
HasSuffix(s, p) == Len(s) >= Len(p) /\ SubSeq(s, Len(s) - Len(p) + 1, Len(s)) = p

\* strings.TrimPrefix
TrimPrefix(s, p) == IF HasPrefix(s, p) THEN SubSeq(s, Len(p) + 1, Len(s)) ELSE s

\* strings.TrimSpace
TrimSpace(s) ==
    LET keep == {i \in 1..Len(s) : s[i] \notin Space}
    IN  IF keep = {} THEN <<>>
        ELSE LET lo == CHOOSE i \in keep : \A j \in keep : i <= j
                 hi == CHOOSE i \in keep : \A j \in keep : j <= i
             IN  SubSeq(s, lo, hi)

\* strings.IndexByte, 0 when absent
Index(s, c) ==
    LET at == {i \in 1..Len(s) : s[i] = c}
    IN  IF at = {} THEN 0 ELSE CHOOSE i \in at : \A j \in at : i <= j

\* strings.LastIndexByte, 0 when absent
LastIndex(s, c) ==
    LET at == {i \in 1..Len(s) : s[i] = c}
    IN  IF at = {} THEN 0 ELSE CHOOSE i \in at : \A j \in at : j <= i

\* strings.Count of a single byte
Count(s, c) == Cardinality({i \in 1..Len(s) : s[i] = c})

\* strings.Split on a single byte
RECURSIVE Split(_, _)
Split(s, c) ==
    LET i == Index(s, c)
    IN  IF i = 0 THEN <<s>>
        ELSE <<SubSeq(s, 1, i - 1)>> \o Split(SubSeq(s, i + 1, Len(s)), c)

Http  == <<"h","t","t","p",":","/","/">>
Https == <<"h","t","t","p","s",":","/","/">>
Www   == <<"w","w","w",".">>

-----------------------------------------------------------------------------
(* net/url as cleanDomainInput uses it.  Inputs hold no '%', '[' or control *)
(* bytes, so escapes, IPv6 literals and the control-byte check play no part. *)

HostBytes == AlNum \cup {"-", "_", ".", "~"} \cup
             {"!", "$", "&", "'", "(", ")", "*", "+", ",", ";", "=", ":", "<", ">"}
UserinfoBytes == AlNum \cup {"-", ".", "_", ":", "~", "!", "$", "&", "'",
                             "(", ")", "*", "+", ",", ";", "=", "@"}

\* url.validOptionalPort: "" or ':' followed by digits only
validOptionalPort(port) ==
    \/ port = <<>>
    \/ /\ port[1] = ":"
       /\ \A i \in 2..Len(port) : port[i] \in Digit

\* url.parseHost: the last colon must start a valid port, every byte must be
\* one a host may hold unescaped
parseHostOK(host) ==
    /\ LET i == LastIndex(host, ":")
       IN  i # 0 => validOptionalPort(SubSeq(host, i, Len(host)))
    /\ \A i \in 1..Len(host) : host[i] \in HostBytes

\* url.parseAuthority: [ok, host]; the host is what follows the last '@'
parseAuthority(authority) ==
    LET i == LastIndex(authority, "@")
        host == SubSeq(authority, i + 1, Len(authority))
        userinfo == SubSeq(authority, 1, i - 1)
    IN  IF ~parseHostOK(host) THEN [ok |-> FALSE, host |-> <<>>]
        ELSE IF i # 0 /\ \E j \in 1..Len(userinfo) : userinfo[j] \notin UserinfoBytes
        THEN [ok |-> FALSE, host |-> <<>>]
        ELSE [ok |-> TRUE, host |-> host]

\* url.Parse of a string that starts with "http://" or "https://":
\* [ok, host] where host is URL.Host (port included)
urlParse(rawURL) ==
    LET hash == Index(rawURL, "#")
        u    == IF hash = 0 THEN rawURL ELSE SubSeq(rawURL, 1, hash - 1)
        colon == Index(u, ":")
        rest0 == SubSeq(u, colon + 1, Len(u))
        q     == Index(rest0, "?")
        rest  == IF HasSuffix(rest0, <<"?">>) /\ Count(rest0, "?") = 1
                 THEN SubSeq(rest0, 1, Len(rest0) - 1)
                 ELSE IF q = 0 THEN rest0 ELSE SubSeq(rest0, 1, q - 1)
        auth0 == SubSeq(rest, 3, Len(rest))
        slash == Index(auth0, "/")
        authority == IF slash = 0 THEN auth0 ELSE SubSeq(auth0, 1, slash - 1)
    IN  parseAuthority(authority)

\* URL.Hostname: Host without a valid port
Hostname(host) ==
    LET colon == LastIndex(host, ":")
    IN  IF colon # 0 /\ validOptionalPort(SubSeq(host, colon, Len(host)))
        THEN SubSeq(host, 1, colon - 1)
        ELSE host

-----------------------------------------------------------------------------
(* Input normalizer *)

\* extractHost taking URL.Host, port included, instead of URL.Hostname()
extractHostWithPort(in) ==
    IF HasPrefix(in, Http) \/ HasPrefix(in, Https)
    THEN LET parsedURL == urlParse(in)
         IN  IF parsedURL.ok THEN parsedURL.host ELSE in
    ELSE in

\* cleanDomainInput, up to the URL step (lines 60-65)
extractHost(in) ==
    IF HasPrefix(in, Http) \/ HasPrefix(in, Https)
    THEN LET parsedURL == urlParse(in)
         IN  IF parsedURL.ok THEN Hostname(parsedURL.host) ELSE in
    ELSE in

cleanDomainInput(in) == TrimSpace(TrimPrefix(extractHost(in), Www))

\* {0,61} of the pattern
MidMax == 61
\* {2,} of the pattern
TldMin == 2

\* [a-zA-Z0-9]([a-zA-Z0-9-]{0,61}[a-zA-Z0-9])?
MatchHead(h) ==
    /\ Len(h) >= 1
    /\ h[1] \in AlNum
    /\ \/ Len(h) = 1
       \/ /\ Len(h) - 2 <= MidMax
          /\ \A i \in 2..(Len(h) - 1) : h[i] \in AlNum \cup {"-"}
          /\ h[Len(h)] \in AlNum

\* (\.[a-zA-Z]{2,})+
MatchTail(t) ==
    /\ Len(t) >= 1
    /\ t[1] = "."
    /\ LET parts == Split(Tail(t), ".")
       IN  \A i \in 1..Len(parts) :
               /\ Len(parts[i]) >= TldMin
               /\ \A j \in 1..Len(parts[i]) : parts[i][j] \in Alpha

\* regexp ^...$ MatchString: the whole string is a head followed by a tail
isValidDomainFormat(domain) ==
    \E k \in 1..Len(domain) :
        /\ MatchHead(SubSeq(domain, 1, k))
        /\ MatchTail(SubSeq(domain, k + 1, Len(domain)))

-----------------------------------------------------------------------------
(* float64 values as exact decimals, and fmt.Sscanf(s, "%f", &f).           *)
(* Coordinates hold only signs, digits, '.', ',' and blanks, so exponents,  *)
(* hexadecimal floats, NaN and Inf play no part.                            *)

RECURSIVE Norm(_, _)
Norm(m, e) == IF e > 0 /\ m % 10 = 0 THEN Norm(m \div 10, e - 1) ELSE [m |-> m, e |-> e]

Zero == [m |-> 0, e |-> 0]

DigitSeq == <<"0","1","2","3","4","5","6","7","8","9">>
DigitVal(c) == Index(DigitSeq, c) - 1

RECURSIVE DigitsToInt(_)
DigitsToInt(ds) ==
    IF ds = <<>> THEN 0
    ELSE DigitsToInt(SubSeq(ds, 1, Len(ds) - 1)) * 10 + DigitVal(ds[Len(ds)])

\* length of the longest prefix of s made of bytes of set
LeadingRun(s, set) ==
    LET bad == {i \in 1..Len(s) : s[i] \notin set}
    IN  IF bad = {} THEN Len(s) ELSE (CHOOSE i \in bad : \A j \in bad : i <= j) - 1

Drop(s, n) == SubSeq(s, n + 1, Len(s))

\* strconv.ParseFloat of the token sign int [. frac]: at least one digit
convertFloat(neg, int, frac) ==
    IF Len(int) + Len(frac) = 0 THEN [ok |-> FALSE, val |-> Zero]
    ELSE [ok  |-> TRUE,
          val |-> Norm((IF neg THEN -1 ELSE 1) * DigitsToInt(int \o frac), Len(frac))]

\* after the integer digits: an optional point and the fraction digits
scanFrac(neg, int, s) ==
    IF s # <<>> /\ s[1] = "."
    THEN convertFloat(neg, int, SubSeq(Tail(s), 1, LeadingRun(Tail(s), Digit)))
    ELSE convertFloat(neg, int, <<>>)

\* after the sign: the integer digits
scanDigits(neg, s) ==
    scanFrac(neg, SubSeq(s, 1, LeadingRun(s, Digit)), Drop(s, LeadingRun(s, Digit)))

\* fmt scanning of verb %f: skip blanks, read the float token (sign, digits,
\* point, digits), convert it with strconv.ParseFloat; what follows the token
\* is left unread.  [ok, val]; on failure the destination is left untouched.
scanSign(s) ==
    IF s # <<>> /\ s[1] \in {"+", "-"}
    THEN scanDigits(s[1] = "-", Tail(s))
    ELSE scanDigits(FALSE, s)

ScanFloat(s) == scanSign(Drop(s, LeadingRun(s, {" ", "\t"})))

-----------------------------------------------------------------------------
(* HTTP responses and their JSON bodies *)

Absent == [t |-> "absent", s |-> <<>>, n |-> Zero]
Str(s) == [t |-> "str", s |-> s, n |-> Zero]
Num(d) == [t |-> "num", s |-> <<>>, n |-> d]

\* a body that is not JSON
Garbage == [parsable |-> FALSE, ip |-> Absent, city |-> Absent, region |-> Absent,
            country_name |-> Absent, country |-> Absent, loc |-> Absent,
            latitude |-> Absent, longitude |-> Absent]

\* the JSON object {}
EmptyObject == [Garbage EXCEPT !.parsable = TRUE]

\* type LocationDetails (lines 21-28)
LocationDetails(ip, city, region, country, lat, lon) ==
    [IP |-> ip, City |-> city, Region |-> region, Country |-> country,
     Latitude |-> lat, Longitude |-> lon]

\* json.Unmarshal(body, &location) for a LocationDetails: a value of the
\* wrong JSON type leaves its field zero and makes the call fail
StrField(v) == IF v.t = "str" THEN v.s ELSE <<>>
NumField(v) == IF v.t = "num" THEN v.n ELSE Zero

UnmarshalLocation(body) ==
    LET strs == {body.ip, body.city, body.region, body.country_name}
        nums == {body.latitude, body.longitude}
    IN  [ok  |-> /\ body.parsable
                 /\ \A v \in strs : v.t \in {"absent", "str"}
                 /\ \A v \in nums : v.t \in {"absent", "num"},
         loc |-> LocationDetails(StrField(body.ip), StrField(body.city),
                                 StrField(body.region), StrField(body.country_name),
                                 NumField(body.latitude), NumField(body.longitude))]

\* what an adapter returns: (*LocationDetails, error) and the request it made
Failure(url, e) == [url |-> url, location |-> <<>>, err |-> e]
Success(url, loc) == [url |-> url, location |-> <<loc>>, err |-> ""]

\* decodeFlat without the city/country validation of lines 124-126
decodeFlatUnvalidated(url, resp) ==
    IF ~resp.transport THEN Failure(url, "transport")
    ELSE IF ~resp.readOK THEN Failure(url, "read")
    ELSE LET u == UnmarshalLocation(resp.body)
         IN  IF ~u.ok THEN Failure(url, "unmarshal") ELSE Success(url, u.loc)

\* lines 113-128 and 176-191: read, unmarshal, validate
decodeFlat(url, resp) ==
    IF ~resp.transport THEN Failure(url, "transport")
    ELSE IF ~resp.readOK THEN Failure(url, "read")
    ELSE LET u == UnmarshalLocation(resp.body)
         IN  IF ~u.ok THEN Failure(url, "unmarshal")
             ELSE IF u.loc.City = <<>> /\ u.loc.Country = <<>>
             THEN Failure(url, "no location data")
             ELSE Success(url, u.loc)

getIPAPILocation(ip, resp) ==
    decodeFlat([host |-> "ipapi.co", ip |-> ip], resp)

getFreeGeoIPLocation(ip, resp) ==
    decodeFlat([host |-> "freegeoip.app", ip |-> ip], resp)

\* parseLoc with the two coordinates exchanged
parseLocSwapped(v) ==
    LET coords == Split(v.s, ",")
        lat == ScanFloat(coords[1])
        lon == ScanFloat(coords[2])
    IN  IF v.t = "str" /\ Len(coords) = 2
        THEN [Latitude  |-> IF lon.ok THEN lon.val ELSE Zero,
              Longitude |-> IF lat.ok THEN lat.val ELSE Zero]
        ELSE [Latitude |-> Zero, Longitude |-> Zero]

\* lines 149-156: the coordinates of data["loc"]
parseLoc(v) ==
    LET coords == Split(v.s, ",")
        lat == ScanFloat(coords[1])
        lon == ScanFloat(coords[2])
    IN  IF v.t = "str" /\ Len(coords) = 2
        THEN [Latitude  |-> IF lat.ok THEN lat.val ELSE Zero,
              Longitude |-> IF lon.ok THEN lon.val ELSE Zero]
        ELSE [Latitude |-> Zero, Longitude |-> Zero]

getIPInfoLocation(ip, resp) ==
    LET url == [host |-> "ipinfo.io", ip |-> ip]
    IN  IF ~resp.transport THEN Failure(url, "transport")
        ELSE IF ~resp.readOK THEN Failure(url, "read")
        ELSE IF ~resp.body.parsable THEN Failure(url, "unmarshal")
        ELSE LET data == resp.body
                 c == parseLoc(data.loc)
                 location == LocationDetails(<<>>, StrField(data.city),
                                 StrField(data.region), StrField(data.country),
                                 c.Latitude, c.Longitude)
             IN  IF location.City = <<>> /\ location.Country = <<>>
                 THEN Failure(url, "no location data")
                 ELSE Success(url, location)

\* the provider list with the first two entries exchanged
locationProvidersSwapped == <<"getIPInfoLocation", "getIPAPILocation", "getFreeGeoIPLocation">>

\* locationProviders (lines 90-94)
locationProviders == <<"getIPAPILocation", "getIPInfoLocation", "getFreeGeoIPLocation">>

provider(name, ip, resp) ==
    CASE name = "getIPAPILocation"     -> getIPAPILocation(ip, resp)
      [] name = "getIPInfoLocation"    -> getIPInfoLocation(ip, resp)
      [] name = "getFreeGeoIPLocation" -> getFreeGeoIPLocation(ip, resp)

-----------------------------------------------------------------------------
(* The environment: DNS answers and HTTP responses *)

\* all sequences over S of length lo..hi
SeqsUpTo(S, lo, hi) == UNION {[1..n -> S] : n \in lo..hi}

Addrs == {"93.184.216.34", "2606:2800:220:1::1"}

\* net.LookupIP returns (ips, err): an error, or a list of distinct addresses
\* that may be empty
LookupResults ==
    {[failed |-> TRUE, ips |-> <<>>]} \cup
    {[failed |-> FALSE, ips |-> a] :
        a \in {b \in SeqsUpTo(Addrs, 0, MaxAddrs) :
                  \A i, j \in 1..Len(b) : b[i] = b[j] => i = j}}

Paris  == <<"P","a","r","i","s">>
France == <<"F","r","a","n","c","e">>
Idf    == <<"I","D","F">>
LocParis == <<"4","8",".","8","5",",","2",".","3","5">>

Bodies ==
    { Garbage,
      EmptyObject,
      [EmptyObject EXCEPT !.ip = Str(<<"1">>), !.region = Str(Idf)],
      [EmptyObject EXCEPT !.city = Str(Paris), !.country_name = Str(France),
                          !.latitude = Num([m |-> 4885, e |-> 2]),
                          !.longitude = Num([m |-> 235, e |-> 2])],
      [EmptyObject EXCEPT !.country = Str(France), !.loc = Str(LocParis)],
      [EmptyObject EXCEPT !.city = Num([m |-> 7, e |-> 0]), !.country = Str(France),
                          !.country_name = Str(France)] }

Statuses == {200, 429}

\* http.Get then io.ReadAll: a transport error, or a response of any status
\* whose body may fail to be read
Responses ==
    {[transport |-> FALSE, status |-> 0, readOK |-> FALSE, body |-> Garbage]} \cup
    {[transport |-> TRUE, status |-> st, readOK |-> FALSE, body |-> Garbage] :
        st \in Statuses} \cup
    {[transport |-> TRUE, status |-> st, readOK |-> TRUE, body |-> b] :
        st \in Statuses, b \in Bodies}

-----------------------------------------------------------------------------
(* ValidateDomain *)

Example == <<"e","x","a","m","p","l","e">>
DotCom  == <<".","c","o","m">>
Path    == <<"/","p","a","t","h">>

ValidateInputs ==
    { Example \o DotCom,
      Https \o Www \o Example \o DotCom \o Path,
      <<" ">> \o Www \o Example \o DotCom \o <<" ">>,
      <<"n","o","t"," ","a"," ","d","o","m","a","i","n">>,
      <<"-","b","a","d">> \o DotCom,
      Www \o Example \o <<".","b">> \o DotCom,
      Https \o Example \o <<" ">> \o DotCom,
      Example,
      <<>> }

NoReturn == [location |-> <<>>, err |-> ""]

Idle ==
    /\ cleanDomain = <<>>
    /\ ipAddress = ""
    /\ lookups = <<>>
    /\ idx = 1
    /\ attempts = <<>>
    /\ requests = <<>>
    /\ locRet = NoReturn
    /\ ret = <<>>
    /\ err = ""
    /\ out = <<>>

Init ==
    /\ mode = "ValidateDomain"
    /\ pc = "start"
    /\ input \in ValidateInputs
    /\ Idle

\* return nil, fmt.Errorf(msg)
Fail(msg) ==
    /\ ret' = <<>>
    /\ err' = msg
    /\ pc' = "done"

\* Validate with the format check of lines 33-35 left out
ValidateUnchecked ==
    /\ mode = "ValidateDomain" /\ pc = "start"
    /\ cleanDomain' = cleanDomainInput(input)
    /\ pc' = "checkDNSResolution"
    /\ UNCHANGED <<mode, input, ipAddress, lookups, idx, attempts, requests,
                   locRet, ret, err, out>>

\* lines 31-35
Validate ==
    /\ mode = "ValidateDomain" /\ pc = "start"
    /\ cleanDomain' = cleanDomainInput(input)
    /\ IF ~isValidDomainFormat(cleanDomain')
       THEN Fail("invalid domain format")
       ELSE pc' = "checkDNSResolution" /\ UNCHANGED <<ret, err>>
    /\ UNCHANGED <<mode, input, ipAddress, lookups, idx, attempts, requests, locRet, out>>

\* lines 37-39 and 84-87
checkDNSResolution ==
    /\ mode = "ValidateDomain" /\ pc = "checkDNSResolution"
    /\ \E r \in LookupResults :
        /\ lookups' = Append(lookups, r)
        /\ IF r.failed
           THEN Fail("cannot resolve domain")
           ELSE pc' = "getIPAddress" /\ UNCHANGED <<ret, err>>
    /\ UNCHANGED <<mode, input, cleanDomain, ipAddress, idx, attempts, requests, locRet, out>>

\* lines 41-44 and 76-82: an empty answer returns ("", err) with err nil
getIPAddress ==
    /\ mode = "ValidateDomain" /\ pc = "getIPAddress"
    /\ \E r \in LookupResults :
        /\ lookups' = Append(lookups, r)
        /\ IF r.failed
           THEN Fail("unable to resolve IP") /\ UNCHANGED ipAddress
           ELSE /\ ipAddress' = IF Len(r.ips) = 0 THEN "" ELSE r.ips[1]
                /\ pc' = "getIPLocation"
                /\ UNCHANGED <<ret, err>>
    /\ UNCHANGED <<mode, input, cleanDomain, idx, attempts, requests, locRet, out>>

\* TryProvider issuing its request a second time when the first attempt failed
TryProviderRetrying ==
    /\ mode = "ValidateDomain" /\ pc = "getIPLocation"
    /\ idx <= Len(locationProviders)
    /\ \E resp \in Responses :
        LET r == provider(locationProviders[idx], ipAddress, resp)
            won == r.err = "" /\ r.location # <<>>
        IN  /\ requests' = IF won THEN Append(requests, r.url)
                           ELSE Append(Append(requests, r.url), r.url)
            /\ attempts' = Append(attempts,
                   [name |-> locationProviders[idx], resp |-> resp,
                    location |-> r.location, err |-> r.err])
            /\ locRet' = IF won THEN [location |-> r.location, err |-> ""] ELSE locRet
            /\ ret' = IF won THEN <<[OriginalInput |-> input, CleanDomain |-> cleanDomain,
                                     IPAddress |-> ipAddress, Location |-> r.location]>>
                      ELSE ret
            /\ pc' = IF won THEN "done" ELSE pc
            /\ idx' = IF won THEN idx ELSE idx + 1
            /\ UNCHANGED err
    /\ UNCHANGED <<mode, input, cleanDomain, ipAddress, lookups, out>>

\* lines 96-100, then 46-56 when the provider succeeded
TryProvider ==
    /\ mode = "ValidateDomain" /\ pc = "getIPLocation"
    /\ idx <= Len(locationProviders)
    /\ \E resp \in Responses :
        LET r == provider(locationProviders[idx], ipAddress, resp)
        IN  /\ requests' = Append(requests, r.url)
            /\ attempts' = Append(attempts,
                   [name |-> locationProviders[idx], resp |-> resp,
                    location |-> r.location, err |-> r.err])
            /\ IF r.err = "" /\ r.location # <<>>
               THEN /\ locRet' = [location |-> r.location, err |-> ""]
                    /\ ret' = <<[OriginalInput |-> input, CleanDomain |-> cleanDomain,
                                 IPAddress |-> ipAddress, Location |-> r.location]>>
                    /\ err' = ""
                    /\ pc' = "done"
                    /\ UNCHANGED idx
               ELSE /\ idx' = idx + 1
                    /\ UNCHANGED <<locRet, ret, err, pc>>
    /\ UNCHANGED <<mode, input, cleanDomain, ipAddress, lookups, out>>

\* AllProvidersFailed returning a DomainInfo whose Location is nil
AllProvidersFailedPartial ==
    /\ mode = "ValidateDomain" /\ pc = "getIPLocation"
    /\ idx > Len(locationProviders)
    /\ locRet' = [location |-> <<>>, err |-> "could not fetch location from any provider"]
    /\ ret' = <<[OriginalInput |-> input, CleanDomain |-> cleanDomain,
                 IPAddress |-> ipAddress, Location |-> <<>>]>>
    /\ err' = ""
    /\ pc' = "done"
    /\ UNCHANGED <<mode, input, cleanDomain, ipAddress, lookups, idx, attempts, requests, out>>

\* line 103, then 47-49
AllProvidersFailed ==
    /\ mode = "ValidateDomain" /\ pc = "getIPLocation"
    /\ idx > Len(locationProviders)
    /\ locRet' = [location |-> <<>>, err |-> "could not fetch location from any provider"]
    /\ Fail("unable to fetch location")
    /\ UNCHANGED <<mode, input, cleanDomain, ipAddress, lookups, idx, attempts, requests, out>>

Next ==
    \/ Validate
    \/ checkDNSResolution
    \/ getIPAddress
    \/ TryProvider
    \/ AllProvidersFailed

Spec == Init /\ [][Next]_vars

-----------------------------------------------------------------------------
(* Properties of ValidateDomain and getIPLocation *)

Failed(a) == a.err # "" \/ a.location = <<>>
Succeeded(a) == ~Failed(a)
HasData(l) == l # <<>> /\ (l[1].City # <<>> \/ l[1].Country # <<>>)
ProviderOrder == <<"ipapi.co", "ipinfo.io", "freegeoip.app">>
Done == mode = "ValidateDomain" /\ pc = "done"

C2_AllFailedIsAnError ==
    /\ (Done /\ Len(attempts) = 3 /\ \A i \in 1..3 : Failed(attempts[i])) =>
        /\ locRet = [location |-> <<>>,
                     err |-> "could not fetch location from any provider"]
        /\ err = "unable to fetch location"
        /\ ret = <<>>
    /\ ret # <<>> => ret[1].Location # <<>>
    /\ locRet.err # "" => locRet.err = "could not fetch location from any provider"

C2_Witness ==
    /\ Done
    /\ Len(attempts) = 3
    /\ \A i \in 1..3 : Failed(attempts[i])
    /\ err = "unable to fetch location"

\* C3: a lookup that fails and a lookup that returns no address both end the
\* call with "cannot resolve domain" and no record, and a returned DomainInfo
\* holds a non-empty IPAddress, the first address of the lookup result.
C3_EmptyOrFailedLookupIsNotFound ==
    /\ \A i \in 1..Len(lookups) :
        (lookups[i].failed \/ lookups[i].ips = <<>>) =>
            pc = "done" /\ ret = <<>> /\ err = "cannot resolve domain"
    /\ ret # <<>> =>
        /\ ret[1].IPAddress # ""
        /\ lookups[Len(lookups)].ips # <<>>
        /\ ret[1].IPAddress = lookups[Len(lookups)].ips[1]

Is2xx(st) == 200 <= st /\ st < 300

\* C7: an adapter returns an error and no record whenever the request failed
\* at transport level, the status is not 2xx, or the body cannot be parsed.
C7_AdapterFailsOnBadResponse ==
    \A i \in 1..Len(attempts) :
        LET a == attempts[i]
        IN  (~a.resp.transport \/ ~Is2xx(a.resp.status) \/ ~a.resp.readOK
                \/ ~a.resp.body.parsable) =>
                    a.err # "" /\ a.location = <<>>

\* C8: an adapter succeeds only with a record whose City or Country is
\* non-empty; so has every location getIPLocation returns and the Location of
\* every DomainInfo.
C8_AcceptedLocationHasData ==
    /\ \A i \in 1..Len(attempts) :
        (attempts[i].err = "" \/ attempts[i].location # <<>>) =>
            /\ attempts[i].err = ""
            /\ HasData(attempts[i].location)
    /\ locRet.location # <<>> => HasData(locRet.location)
    /\ ret # <<>> => HasData(ret[1].Location)

\* a record with an empty City and a Country was accepted, after an adapter
\* turned down a response with neither
C8_Witness ==
    /\ Done
    /\ ret # <<>>
    /\ ret[1].Location[1].City = <<>>
    /\ ret[1].Location[1].Country = France
    /\ \E i \in 1..Len(attempts) :
        /\ attempts[i].resp.body = EmptyObject
        /\ attempts[i].resp.readOK
        /\ attempts[i].err = "no location data"

\* C9: within one call each adapter is attempted at most once and each attempt
\* issues exactly one request: at most three requests, none to a provider
\* already asked.
C9_OneRequestPerProvider ==
    /\ Len(requests) = Len(attempts)
    /\ Len(requests) <= 3
    /\ \A i, j \in 1..Len(requests) : requests[i].host = requests[j].host => i = j
    /\ \A i, j \in 1..Len(attempts) : attempts[i].name = attempts[j].name => i = j
    /\ \A i \in 1..Len(requests) : requests[i].ip = ipAddress

C9_Witness ==
    /\ Done
    /\ Len(requests) = 3
    /\ \A i \in 1..3 : Failed(attempts[i])

-----------------------------------------------------------------------------
(* isValidDomainFormat called on its own *)

Join(labels) ==
    Flatten([i \in 1..Len(labels) |->
                IF i = 1 THEN labels[i] ELSE <<".">> \o labels[i]])

LabelSamples ==
    { <<>>, <<"a">>, <<"a","b">>, <<"7">>, <<"a","7">>, <<"-">>, <<"-","a">>,
      <<"a","-">>, <<"a","-","b">>, <<"a","_">>, <<"A","b","c">>,
      Repeat("a", MidMax + 2), Repeat("a", MidMax + 3),
      <<"a">> \o Repeat("-", MidMax) \o <<"a">> }

FormatInputs == {Join(ls) : ls \in SeqsUpTo(LabelSamples, 1, MaxLabels)}

InitFormat ==
    /\ mode = "isValidDomainFormat"
    /\ pc = "call"
    /\ input \in FormatInputs
    /\ Idle

CallIsValidDomainFormat ==
    /\ mode = "isValidDomainFormat" /\ pc = "call"
    /\ out' = <<isValidDomainFormat(input)>>
    /\ pc' = "done"
    /\ UNCHANGED <<mode, input, cleanDomain, ipAddress, lookups, idx, attempts,
                   requests, locRet, ret, err>>

NextFormat == CallIsValidDomainFormat

SpecFormat == InitFormat /\ [][NextFormat]_vars

\* a label of 1 to 63 letters, digits or hyphens with no hyphen at either end
GrammarLabel(l) ==
    /\ Len(l) >= 1 /\ Len(l) <= 63
    /\ \A i \in 1..Len(l) : l[i] \in AlNum \cup {"-"}
    /\ l[1] # "-" /\ l[Len(l)] # "-"

\* one or more such labels, then a top-level label of two or more letters
Grammar(s) ==
    LET parts == Split(s, ".")
        n == Len(parts)
    IN  /\ n >= 2
        /\ \A i \in 1..(n - 1) : GrammarLabel(parts[i])
        /\ Len(parts[n]) >= 2
        /\ \A j \in 1..Len(parts[n]) : parts[n][j] \in Alpha

\* C5: isValidDomainFormat returns true exactly for the strings made of one or
\* more dot-separated labels (1 to 63 letters, digits or hyphens, no hyphen
\* first or last) followed by a top-level label of at least two letters.
C5_AcceptsExactlyTheGrammar ==
    (mode = "isValidDomainFormat" /\ pc = "done") => out[1] = Grammar(input)

-----------------------------------------------------------------------------
(* cleanDomainInput called on its own *)

CleanTokens == { Www, <<"a">>, <<"/">>, <<":">>, <<"8">>, <<"?">>, <<"#">>,
                 <<" ">>, <<"@">> }

CleanInputs ==
    {sch \o Flatten(ts) : sch \in {Http, Https},
                          ts \in SeqsUpTo(CleanTokens, 0, MaxTokens)}
    \cup {Https \o Www \o Example \o DotCom \o Path,
          Www \o Example \o DotCom,
          <<" ">> \o Example \o DotCom \o <<" ">>}

InitClean ==
    /\ mode = "cleanDomainInput"
    /\ pc = "call"
    /\ input \in CleanInputs
    /\ Idle

CallCleanDomainInput ==
    /\ mode = "cleanDomainInput" /\ pc = "call"
    /\ out' = <<cleanDomainInput(input)>>
    /\ pc' = "done"
    /\ UNCHANGED <<mode, input, cleanDomain, ipAddress, lookups, idx, attempts,
                   requests, locRet, ret, err>>

NextClean == CallCleanDomainInput

SpecClean == InitClean /\ [][NextClean]_vars

\* the parts of a URL as RFC 3986 divides it: the authority runs from the "//"
\* to the first '/', '?' or '#'; the host and port follow its last '@'; the
\* port is a final ':' with digits
AfterScheme(s) == Drop(s, IF HasPrefix(s, Https) THEN Len(Https) ELSE Len(Http))
RefAuthority(s) ==
    LET r == AfterScheme(s)
        stop == {i \in 1..Len(r) : r[i] \in {"/", "?", "#"}}
    IN  SubSeq(r, 1, IF stop = {} THEN Len(r)
                     ELSE (CHOOSE i \in stop : \A j \in stop : i <= j) - 1)
RefHostPort(s) ==
    LET a == RefAuthority(s)
        ats == {i \in 1..Len(a) : a[i] = "@"}
    IN  IF ats = {} THEN a
        ELSE Drop(a, CHOOSE i \in ats : \A j \in ats : j <= i)
RefHost(s) ==
    LET hp == RefHostPort(s)
        nd == {i \in 1..Len(hp) : hp[i] \notin Digit}
        last == IF nd = {} THEN 0 ELSE CHOOSE i \in nd : \A j \in nd : j <= i
    IN  IF last # 0 /\ hp[last] = ":" THEN SubSeq(hp, 1, last - 1) ELSE hp

\* C6: for an input that starts with "http://" or "https://", cleanDomainInput
\* returns the host of the URL, without scheme, userinfo, port, path, query or
\* fragment, less one leading "www."; when url.Parse fails the input goes on
\* unmodified to the "www." and whitespace steps, which leave of it all but
\* surrounding whitespace.
C6_UrlYieldsHost ==
    (mode = "cleanDomainInput" /\ pc = "done"
        /\ (HasPrefix(input, Http) \/ HasPrefix(input, Https))) =>
        IF urlParse(input).ok
        THEN /\ out[1] = TrimPrefix(RefHost(input), Www)
             /\ \A i \in 1..Len(out[1]) : out[1][i] \notin {"/", "?", "#", "@"} \cup Space
             /\ Count(RefHostPort(input), ":") <= 1 => Count(out[1], ":") = 0
        ELSE out[1] = TrimSpace(input)

C6_Witness ==
    /\ mode = "cleanDomainInput" /\ pc = "done"
    /\ input = Https \o Www \o Example \o DotCom \o Path
    /\ out = <<Example \o DotCom>>

-----------------------------------------------------------------------------
(* getIPInfoLocation called on a response that carries coordinates *)

Mantissas == 0..MaxMantissa \cup {4885, 235}

CoordSamples ==
    [neg : BOOLEAN, m : Mantissas, e : 0..MaxScale]

RECURSIVE IntToDigits(_)
IntToDigits(n) ==
    IF n < 10 THEN <<DigitSeq[n + 1]>>
    ELSE IntToDigits(n \div 10) \o <<DigitSeq[(n % 10) + 1]>>

\* the decimal numeral of m / 10^e: sign, integer digits, and when e > 0 a
\* point and e fraction digits
Numeral(c) ==
    LET ds == IntToDigits(c.m)
        padded == Repeat("0", IF Len(ds) > c.e THEN 0 ELSE c.e + 1 - Len(ds)) \o ds
        cut == Len(padded) - c.e
    IN  (IF c.neg THEN <<"-">> ELSE <<>>)
        \o SubSeq(padded, 1, cut)
        \o (IF c.e = 0 THEN <<>> ELSE <<".">> \o SubSeq(padded, cut + 1, Len(padded)))

ValueOf(c) == Norm(IF c.neg THEN 0 - c.m ELSE c.m, c.e)

InitLoc ==
    /\ mode = "getIPInfoLocation"
    /\ pc = "call"
    /\ input \in [lat : CoordSamples, lon : CoordSamples]
    /\ Idle

\* ipinfo.io answers with "loc": "<lat>,<lon>" and the adapter decodes it
CallGetIPInfoLocation ==
    /\ mode = "getIPInfoLocation" /\ pc = "call"
    /\ LET loc == Numeral(input.lat) \o <<",">> \o Numeral(input.lon)
           resp == [transport |-> TRUE, status |-> 200, readOK |-> TRUE,
                    body |-> [EmptyObject EXCEPT !.country = Str(France),
                                                 !.loc = Str(loc)]]
       IN  out' = <<getIPInfoLocation("93.184.216.34", resp)>>
    /\ pc' = "done"
    /\ UNCHANGED <<mode, input, cleanDomain, ipAddress, lookups, idx, attempts,
                   requests, locRet, ret, err>>

NextLoc == CallGetIPInfoLocation

SpecLoc == InitLoc /\ [][NextLoc]_vars

\* C10: from "loc": "<lat>,<lon>" getIPInfoLocation sets Latitude to the value
\* of the first numeral and Longitude to the value of the second.
C10_CoordinatesParsedExactly ==
    (mode = "getIPInfoLocation" /\ pc = "done") =>
        /\ out[1].err = ""
        /\ out[1].location # <<>>
        /\ out[1].location[1].Latitude = ValueOf(input.lat)
        /\ out[1].location[1].Longitude = ValueOf(input.lon)

\* "48.85,2.35" gave latitude 48.85 and longitude 2.35
C10_Witness ==
    /\ mode = "getIPInfoLocation" /\ pc = "done"
    /\ Numeral(input.lat) \o <<",">> \o Numeral(input.lon) = LocParis
    /\ out[1].location[1].Latitude = [m |-> 4885, e |-> 2]
    /\ out[1].location[1].Longitude = [m |-> 235, e |-> 2]


====
